---- MODULE Spec2Model ----
(***************************************************************************)
(* Environmental dashboard (src/app.py): a CSV is loaded and normalised    *)
(* once at import time into the module-level DataFrame df; seven Flask     *)
(* handlers then answer read-only queries against df.                      *)
(*                                                                         *)
(* Number scaling.  Floats of the source are modelled as integers:         *)
(*   esi          in twentieths   (esi value 10 is 0.50), so esi*20 = value*)
(*   pm25         in tenths of a microgram per cubic metre                 *)
(*   green_cover  in percent                                               *)
(* The value sets below are chosen so that no mean falls exactly on a      *)
(* rounding tie for up to four rows, which keeps round() exact.            *)
(*                                                                         *)
(* The '/' route only renders an external template and never touches df;   *)
(* it is not modelled.                                                     *)
(***************************************************************************)
EXTENDS Integers, Sequences, FiniteSets, TLC

VARIABLES csv, df, pc, resp, snap, tie, failed

vars == <<csv, df, pc, resp, snap, tie, failed>>

\* ------------------------------------------------------------------ bounds
MaxRows == 2

\* ------------------------------------------------------- program constants
DefaultPopulation == 50000
DefaultBudget == 100000000
RadiusMin == 8
RadiusMax == 25
RadiusBase == 5
EsiScale == 20
FaqCount == 5

HighStress == "High Stress"
MediumStress == "Medium Stress"
LowStress == "Low Stress"

Red == "#e74c3c"
Orange == "#f39c12"
Green == "#2ecc71"
Gray == "#999"

\* ------------------------------------------------------------- data frames
\* A DataFrame: n rows, data maps each column name to its sequence of values.
\* isNone marks the Python value None held by the module-level name df.
EmptyData == [c \in {} |-> <<>>]

None == [isNone |-> TRUE, n |-> 0, data |-> EmptyData]

Frame(n, data) == [isNone |-> FALSE, n |-> n, data |-> data]

Columns(d) == DOMAIN d.data

\* df[name] = values : adds the column or overwrites it, all rows at once.
SetColumn(d, name, values) ==
    Frame(d.n, [c \in Columns(d) \cup {name} |->
                    IF c = name THEN values ELSE d.data[c]])

\* df[name] = scalar : the scalar is broadcast to every row.
Broadcast(d, v) == [i \in 1..d.n |-> v]

\* --------------------------------------------------------- the source file
RequiredCols == {"ward", "pm25", "heat", "pop_density", "green_cover", "esi",
                 "stress_zone"}

OptionalCols == {"lat", "lon", "latitude", "longitude", "population",
                 "total_budget"}

EsiVals == {-2, 10, 22}

ZoneVals == {HighStress, MediumStress, LowStress, "Unzoned"}

\* pm25 columns by row index: all zero (every row a maximum, mean 0) or
\* strictly increasing.
Pm25Patterns == {"zero", "rising"}

Pm25Of(p, i) == IF p = "zero" THEN 0 ELSE 100 * i

\* Column sets of a file: at most one required column missing, any optional ones.
ColumnSets ==
    {(RequiredCols \ m) \cup o :
        m \in {{}} \cup {{c} : c \in RequiredCols}, o \in SUBSET OptionalCols}

FullCols == RequiredCols \cup {"lat", "lon", "population", "total_budget"}

CellOf(c, i, esi, zone, p) ==
    CASE c = "ward" -> i
      [] c = "pm25" -> Pm25Of(p, i)
      [] c = "heat" -> 30 + i
      [] c = "pop_density" -> 1000 * i
      [] c = "green_cover" -> 10 * i
      [] c = "esi" -> esi[i]
      [] c = "stress_zone" -> zone[i]
      [] c = "lat" -> 10 + i
      [] c = "latitude" -> 20 + i
      [] c = "lon" -> 70 + i
      [] c = "longitude" -> 80 + i
      [] c = "population" -> 40000 * i
      [] c = "total_budget" -> 3000 * (i - 1)

MkFile(n, cols, esi, zone, p) ==
    [readable |-> TRUE, n |-> n,
     data |-> [c \in cols |-> [i \in 1..n |-> CellOf(c, i, esi, zone, p)]]]

Unreadable == [readable |-> FALSE, n |-> 0, data |-> EmptyData]

PlainEsi(n) == [i \in 1..n |-> 10]

PlainZone(n) == [i \in 1..n |-> IF i % 2 = 1 THEN HighStress ELSE LowStress]

\* Files whose rows vary freely over complete columns, and files whose columns
\* vary freely over plain rows.
SourceFiles ==
    UNION {{MkFile(n, FullCols, e, z, p) :
                e \in [1..n -> EsiVals], z \in [1..n -> ZoneVals], p \in Pm25Patterns}
           : n \in 0..MaxRows}
    \cup {MkFile(n, cs, PlainEsi(n), PlainZone(n), "rising") :
                n \in 0..MaxRows, cs \in ColumnSets}
    \cup {Unreadable}

\* ------------------------------------------------------------ pandas helpers
Rows(d) == 1..d.n

\* Name of the first column of `order` the frame lacks ("" when it has all):
\* the KeyError a chain of df[col] / row[col] accesses raises first.
FirstMissing(d, order) ==
    LET miss == {k \in 1..Len(order) : order[k] \notin Columns(d)}
    IN IF miss = {} THEN ""
       ELSE order[CHOOSE k \in miss : \A j \in miss : k <= j]

\* Row positions matching df[df['stress_zone'] == zone], in frame order.
ZoneRows(d, zone) == {i \in Rows(d) : d.data["stress_zone"][i] = zone}

RECURSIVE SumOver(_, _)
SumOver(col, rows) ==
    IF rows = {} THEN 0
    ELSE LET i == CHOOSE r \in rows : TRUE IN col[i] + SumOver(col, rows \ {i})

\* round(a / n) to the nearest integer (ties cannot occur for the value sets).
RoundDiv(a, n) == (2 * a + n) \div (2 * n)

Num(v) == [nan |-> FALSE, v |-> v]

NaN == [nan |-> TRUE, v |-> 0]

\* Series.mean() scaled by `scale` and rounded; NaN for an empty series.
Mean(d, name, scale) ==
    IF d.n = 0 THEN NaN
    ELSE Num(RoundDiv(scale * SumOver(d.data[name], Rows(d)), d.n))

\* Does position j come before position i when sorting keys descending?
Before(keys, t, j, i) ==
    \/ keys[j] > keys[i]
    \/ keys[j] = keys[i] /\ (IF t = "first_seen" THEN j < i ELSE j > i)

\* Positions 1..m ordered by key ascending (ascending=False left out).
ArgsortAsc(keys, m, t) ==
    [p \in 1..m |->
        CHOOSE i \in 1..m : Cardinality({j \in 1..m : Before(keys, t, i, j)}) = p - 1]

\* Positions 1..m ordered by key descending; equal keys by the tie policy.
ArgsortDesc(keys, m, t) ==
    [p \in 1..m |->
        CHOOSE i \in 1..m : Cardinality({j \in 1..m : Before(keys, t, j, i)}) = p - 1]

\* Series.value_counts(): distinct labels in first-seen order, then ordered
\* by count descending.
value_counts(d, name, t) ==
    LET col == d.data[name]
        firsts == {i \in Rows(d) : \A j \in 1..(i - 1) : col[j] # col[i]}
        m == Cardinality(firsts)
        seen == [k \in 1..m |->
                    CHOOSE i \in firsts : Cardinality({j \in firsts : j < i}) = k - 1]
        counts == [k \in 1..m |->
                    Cardinality({i \in Rows(d) : col[i] = col[seen[k]]})]
        order == ArgsortDesc(counts, m, t)
    IN [k \in 1..m |-> [label |-> col[seen[order[k]]], count |-> counts[order[k]]]]

\* ---------------------------------------------------------------- responses
Response(endpoint, status, error, body) ==
    [endpoint |-> endpoint, status |-> status, error |-> error, body |-> body]

EmptyFigure == [data |-> <<>>, layout |-> "empty"]

ColorOf(zone) ==
    CASE zone = HighStress -> Red
      [] zone = MediumStress -> Orange
      [] zone = LowStress -> Green
      [] OTHER -> Gray

\* return jsonify({'error': str(e)}), 200 : the except branch with the status
\* of a success.
ErrorResponseOk(endpoint, e) == Response(endpoint, 200, e, <<>>)

\* return jsonify({'error': str(e)}), 500 : the except branch of get_overview,
\* stress_distribution and pm25_green.
ErrorResponse(endpoint, e) == Response(endpoint, 500, e, <<>>)

\* The data dict with the medium count filtered on the High Stress label.
OverviewDataMiscount(d) ==
    [total_wards |-> d.n,
     high_stress_count |-> Cardinality(ZoneRows(d, HighStress)),
     medium_stress_count |-> Cardinality(ZoneRows(d, HighStress)),
     low_stress_count |-> Cardinality(ZoneRows(d, LowStress)),
     avg_pm25 |-> Mean(d, "pm25", 1),
     avg_esi |-> Mean(d, "esi", 1000 \div EsiScale)]

\* The data dict of get_overview for a frame that has the three columns.
OverviewData(d) ==
    [total_wards |-> d.n,
     high_stress_count |-> Cardinality(ZoneRows(d, HighStress)),
     medium_stress_count |-> Cardinality(ZoneRows(d, MediumStress)),
     low_stress_count |-> Cardinality(ZoneRows(d, LowStress)),
     avg_pm25 |-> Mean(d, "pm25", 1),
     avg_esi |-> Mean(d, "esi", 1000 \div EsiScale)]

\* /api/overview
get_overview(d) ==
    IF d.isNone
    THEN Response("overview", 200, "",
                  [total_wards |-> 0, high_stress_count |-> 0,
                   medium_stress_count |-> 0, low_stress_count |-> 0,
                   avg_pm25 |-> Num(0), avg_esi |-> Num(0)])
    ELSE LET miss == FirstMissing(d, <<"stress_zone", "pm25", "esi">>) IN
         IF miss # "" THEN ErrorResponse("overview", miss)
         ELSE Response("overview", 200, "", OverviewData(d))

\* /api/stress-distribution : one pie trace, colours listed by position.
stress_distribution(d, t) ==
    IF d.isNone THEN Response("stress", 200, "", EmptyFigure)
    ELSE LET miss == FirstMissing(d, <<"stress_zone">>) IN
         IF miss # "" THEN ErrorResponse("stress", miss)
         ELSE LET vc == value_counts(d, "stress_zone", t) IN
              Response("stress", 200, "",
                  [data |-> << [labels |-> [k \in 1..Len(vc) |-> vc[k].label],
                                values |-> [k \in 1..Len(vc) |-> vc[k].count],
                                colors |-> <<Red, Orange, Green>>] >>,
                   layout |-> "Stress Zone Distribution"])

\* The colour the pie draws slice k in: marker.colors is matched to the slices
\* by position, and slices past its end fall back to the default colourway.
SliceColor(trace, k) ==
    IF k <= Len(trace.colors) THEN trace.colors[k] ELSE "colorway"

\* Row positions of a set, as a sequence in frame order.
InOrder(rows) ==
    [k \in 1..Cardinality(rows) |->
        CHOOSE i \in rows : Cardinality({j \in rows : j < i}) = k - 1]

\* /api/pm25-green : one scatter trace per zone that has rows.
pm25_green(d) ==
    IF d.isNone THEN Response("pm25_green", 200, "", EmptyFigure)
    ELSE LET zones == <<LowStress, MediumStress, HighStress>>
             miss0 == FirstMissing(d, <<"stress_zone">>)
             used == IF miss0 # "" THEN {}
                     ELSE {k \in 1..3 : ZoneRows(d, zones[k]) # {}}
             miss == IF miss0 # "" THEN miss0
                     ELSE IF used = {} THEN ""
                     ELSE FirstMissing(d, <<"green_cover", "pm25", "ward">>)
             Trace(zone) ==
                 LET ix == InOrder(ZoneRows(d, zone)) IN
                 [name |-> zone, color |-> ColorOf(zone),
                  x |-> [k \in 1..Len(ix) |-> d.data["green_cover"][ix[k]]],
                  y |-> [k \in 1..Len(ix) |-> d.data["pm25"][ix[k]]],
                  text |-> [k \in 1..Len(ix) |-> d.data["ward"][ix[k]]]]
             ks == InOrder(used)
         IN IF miss # "" THEN ErrorResponse("pm25_green", miss)
            ELSE Response("pm25_green", 200, "",
                     [data |-> [k \in 1..Len(ks) |-> Trace(zones[ks[k]])],
                      layout |-> "PM2.5 vs Green Cover"])

\* radius = max(8, min(25, 5 + esi*20)); esi is held in twentieths, so the
\* model's esi value is the product esi*20 itself.
Min2(a, b) == IF a < b THEN a ELSE b

Max2(a, b) == IF a > b THEN a ELSE b

\* The radius without the lower clamp.
MarkerRadiusNoFloor(esi) == Min2(RadiusMax, RadiusBase + esi)

MarkerRadius(esi) ==
    Max2(RadiusMin, Min2(RadiusMax, RadiusBase + esi))

\* row.get(name, default)
RowGet(d, i, name, default) ==
    IF name \in Columns(d) THEN d.data[name][i] ELSE default

\* /api/map : one circle marker per row; always answers 200.
get_map(d) ==
    IF d.isNone THEN Response("map", 200, "No data", <<>>)
    ELSE LET miss == IF d.n = 0 THEN ""
                     ELSE FirstMissing(d, <<"stress_zone", "esi", "ward", "lat",
                                            "lon", "pm25", "heat", "green_cover",
                                            "pop_density">>)
         IN IF miss # "" THEN Response("map", 200, miss, <<>>)
            ELSE Response("map", 200, "",
                     [i \in Rows(d) |->
                        [ward |-> d.data["ward"][i],
                         location |-> <<d.data["lat"][i], d.data["lon"][i]>>,
                         radius |-> MarkerRadius(d.data["esi"][i]),
                         color |-> ColorOf(d.data["stress_zone"][i]),
                         population |-> RowGet(d, i, "population", DefaultPopulation)]])

WardCols == <<"ward", "pm25", "heat", "pop_density", "green_cover", "esi",
              "stress_zone">>

\* data.sort_values('esi', ascending=False) on the copied projection.
SortedWards(d, t) ==
    LET order == ArgsortDesc(d.data["esi"], d.n, t) IN
    [k \in Rows(d) |->
        [c \in {WardCols[j] : j \in 1..Len(WardCols)} |-> d.data[c][order[k]]]]

\* /api/wards
get_wards(d, t) ==
    IF d.isNone THEN Response("wards", 200, "", <<>>)
    ELSE IF FirstMissing(d, WardCols) # "" THEN Response("wards", 200, "", <<>>)
    ELSE Response("wards", 200, "", SortedWards(d, t))

\* df.sort_values('esi', ascending=False, inplace=True) on df itself.
FrameSortedInPlace(d, t) ==
    IF d.isNone \/ "esi" \notin Columns(d) THEN d
    ELSE LET order == ArgsortDesc(d.data["esi"], d.n, t) IN
         Frame(d.n, [c \in Columns(d) |-> [k \in Rows(d) |-> d.data[c][order[k]]]])

\* What the module-level df holds after get_wards ran: the projection is
\* .copy()'d and sort_values returns a new frame, so df itself is untouched.
FrameAfterWards(d, t) == d

\* Position of the first maximum of a column (Series.idxmax).
IdxMax(col, n) ==
    CHOOSE i \in 1..n :
        /\ \A j \in 1..n : col[j] <= col[i]
        /\ \A j \in 1..(i - 1) : col[j] < col[i]

Card(type, title, value) == [type |-> type, title |-> title, value |-> value]

\* Does the body of get_insights raise for this frame?
InsightsRaises(d) ==
    \/ "stress_zone" \notin Columns(d)
    \/ d.n = 0
    \/ FirstMissing(d, <<"pm25", "ward", "green_cover">>) # ""

\* The cards with the population card left out when nobody is at risk.
InsightCardsSkipZero(d) ==
    LET high == ZoneRows(d, HighStress)
        worst == IdxMax(d.data["pm25"], d.n)
        critical_pop == IF "population" \in Columns(d)
                        THEN SumOver(d.data["population"], high) ELSE 0
        high_budget == IF "total_budget" \in Columns(d)
                       THEN SumOver(d.data["total_budget"], high) ELSE 0
    IN << Card("critical", "Critical Zones", Cardinality(high)),
          Card("pollution", "Pollution Hotspot", d.data["ward"][worst]),
          Card("green", "Green Cover Gap",
               25 - Mean(d, "green_cover", 1).v) >>
       \o (IF critical_pop = 0 THEN <<>>
           ELSE << Card("population", "Population at Risk", critical_pop) >>)
       \o << Card("budget", "Budget Strategy", high_budget) >>

\* The five cards; value carries the card's leading quantity before formatting.
InsightCards(d) ==
    LET high == ZoneRows(d, HighStress)
        worst == IdxMax(d.data["pm25"], d.n)
        critical_pop == IF "population" \in Columns(d)
                        THEN SumOver(d.data["population"], high) ELSE 0
        high_budget == IF "total_budget" \in Columns(d)
                       THEN SumOver(d.data["total_budget"], high) ELSE 0
    IN << Card("critical", "Critical Zones", Cardinality(high)),
          Card("pollution", "Pollution Hotspot", d.data["ward"][worst]),
          Card("green", "Green Cover Gap",
               25 - Mean(d, "green_cover", 1).v),
          Card("population", "Population at Risk", critical_pop),
          Card("budget", "Budget Strategy", high_budget) >>

\* /api/insights
get_insights(d) ==
    IF d.isNone THEN Response("insights", 200, "", <<>>)
    ELSE IF InsightsRaises(d) THEN Response("insights", 200, "", <<>>)
    ELSE Response("insights", 200, "", InsightCards(d))

\* /api/faq : five fixed question/answer pairs.
get_faq == Response("faq", 200, "", [k \in 1..FaqCount |-> k])

\* ------------------------------------------------------------ startup load
NoResponse == [endpoint |-> "none", status |-> 0, error |-> "", body |-> <<>>]

LoadSteps == {"read", "fix_lat", "fix_lon", "add_population", "add_budget"}

\* Sort algorithms that do not promise stability order equal keys in a way the
\* build decides; the order is fixed for the life of the process.
TiePolicies == {"first_seen", "reversed"}

Init ==
    /\ csv \in SourceFiles
    /\ df = None
    /\ pc = "read"
    /\ resp = NoResponse
    /\ snap = None
    /\ tie \in TiePolicies
    /\ failed = FALSE

read_csv(f) == Frame(f.n, f.data)

AliasColumn(d, from, to) ==
    IF from \in Columns(d) THEN SetColumn(d, to, d.data[from]) ELSE d

\* The default written whether or not the column exists.
DefaultColumnAlways(d, name, v) == SetColumn(d, name, Broadcast(d, v))

DefaultColumn(d, name, v) ==
    IF name \notin Columns(d) THEN SetColumn(d, name, Broadcast(d, v)) ELSE d

ReadCsv ==
    /\ pc = "read"
    /\ csv.readable
    /\ df' = read_csv(csv)
    /\ pc' = "fix_lat"
    /\ UNCHANGED <<csv, resp, snap, tie, failed>>

FixLat ==
    /\ pc = "fix_lat"
    /\ df' = AliasColumn(df, "latitude", "lat")
    /\ pc' = "fix_lon"
    /\ UNCHANGED <<csv, resp, snap, tie, failed>>

FixLon ==
    /\ pc = "fix_lon"
    /\ df' = AliasColumn(df, "longitude", "lon")
    /\ pc' = "add_population"
    /\ UNCHANGED <<csv, resp, snap, tie, failed>>

AddPopulation ==
    /\ pc = "add_population"
    /\ df' = DefaultColumn(df, "population", DefaultPopulation)
    /\ pc' = "add_budget"
    /\ UNCHANGED <<csv, resp, snap, tie, failed>>

AddBudget ==
    /\ pc = "add_budget"
    /\ df' = DefaultColumn(df, "total_budget", DefaultBudget)
    /\ pc' = "serving"
    /\ snap' = df'
    /\ UNCHANGED <<csv, resp, tie, failed>>

\* The except branch without its df = None: the frame built so far stays.
LoadFailsKeepsFrame ==
    /\ pc \in LoadSteps
    /\ df' = df
    /\ pc' = "serving"
    /\ snap' = df
    /\ failed' = TRUE
    /\ UNCHANGED <<csv, resp, tie>>

\* except Exception: any step of the try block may raise (reading an unreadable
\* file always does); whatever was built so far is dropped.
LoadFails ==
    /\ pc \in LoadSteps
    /\ df' = None
    /\ pc' = "serving"
    /\ snap' = None
    /\ failed' = TRUE
    /\ UNCHANGED <<csv, resp, tie>>

\* ----------------------------------------------------------------- requests
\* Flask serves requests only after the module body, the load included, ran.
GetOverview ==
    /\ pc = "serving"
    /\ resp' = get_overview(df)
    /\ UNCHANGED <<csv, df, pc, snap, tie, failed>>

StressDistribution ==
    /\ pc = "serving"
    /\ resp' = stress_distribution(df, tie)
    /\ UNCHANGED <<csv, df, pc, snap, tie, failed>>

Pm25Green ==
    /\ pc = "serving"
    /\ resp' = pm25_green(df)
    /\ UNCHANGED <<csv, df, pc, snap, tie, failed>>

GetMap ==
    /\ pc = "serving"
    /\ resp' = get_map(df)
    /\ UNCHANGED <<csv, df, pc, snap, tie, failed>>

GetWards ==
    /\ pc = "serving"
    /\ resp' = get_wards(df, tie)
    /\ df' = FrameAfterWards(df, tie)
    /\ UNCHANGED <<csv, pc, snap, tie, failed>>

GetInsights ==
    /\ pc = "serving"
    /\ resp' = get_insights(df)
    /\ UNCHANGED <<csv, df, pc, snap, tie, failed>>

GetFaq ==
    /\ pc = "serving"
    /\ resp' = get_faq
    /\ UNCHANGED <<csv, df, pc, snap, tie, failed>>

Next ==
    \/ ReadCsv \/ FixLat \/ FixLon \/ AddPopulation \/ AddBudget \/ LoadFails
    \/ GetOverview \/ StressDistribution \/ Pm25Green \/ GetMap \/ GetWards
    \/ GetInsights \/ GetFaq

Spec == Init /\ [][Next]_vars

\* ------------------------------------------------------------------- claims
Answered(e) == pc = "serving" /\ resp.endpoint = e

Loaded == pc = "serving" /\ ~failed

ThreeZones == {HighStress, MediumStress, LowStress}

Has(d, cols) == cols \subseteq Columns(d)

\* The frames on which the try block of an endpoint raises, stated from the
\* columns each handler reads.
QueryRaises(e, d) ==
    /\ ~d.isNone
    /\ CASE e = "overview" -> ~Has(d, {"stress_zone", "pm25", "esi"})
         [] e = "stress" -> ~Has(d, {"stress_zone"})
         [] e = "pm25_green" ->
              \/ ~Has(d, {"stress_zone"})
              \/ /\ \E i \in Rows(d) : d.data["stress_zone"][i] \in ThreeZones
                 /\ ~Has(d, {"green_cover", "pm25", "ward"})
         [] OTHER -> FALSE

\* C1 as stated: every answer of every endpoint carries HTTP 200, whatever the
\* dataset and whether or not the query raised.
C1_AlwaysStatus200 == resp.endpoint # "none" => resp.status = 200

\* C1 amended: an answer carries HTTP 500 with an {'error': message} body
\* exactly when it comes from overview or a chart endpoint whose computation
\* raised; every other answer, of any endpoint and dataset, carries HTTP 200.
C1_Status500OnlyOnChartAndOverviewFailure ==
    resp.endpoint # "none" =>
        IF resp.endpoint \in {"overview", "stress", "pm25_green"}
           /\ QueryRaises(resp.endpoint, df)
        THEN resp.status = 500 /\ resp.error # ""
        ELSE resp.status = 200

C1_Witness == Answered("overview") /\ resp.status = 500 /\ df.n = 2

InsightTitles ==
    <<"Critical Zones", "Pollution Hotspot", "Green Cover Gap",
      "Population at Risk", "Budget Strategy">>

TitlesOf(cards) == [k \in 1..Len(cards) |-> cards[k].title]

\* C2 as stated: insights answers with exactly the five cards in the fixed
\* order for every dataset, the failed load and the zero-row frame included.
C2_AlwaysFiveCards ==
    Answered("insights") => TitlesOf(resp.body) = InsightTitles

\* C2 amended: insights answers with the five cards in the fixed order when
\* the frame is loaded, has at least one row and has the columns the cards
\* read; for a failed load, a frame of zero rows or a missing column it
\* answers with the empty list. No other answer occurs.
C2_FiveCardsOrEmpty ==
    Answered("insights") =>
        /\ resp.status = 200
        /\ IF ~df.isNone /\ df.n >= 1
              /\ Has(df, {"stress_zone", "pm25", "ward", "green_cover"})
           THEN TitlesOf(resp.body) = InsightTitles
           ELSE Len(resp.body) = 0

C2_Witness ==
    /\ Answered("insights")
    /\ Len(resp.body) = 5
    /\ \A i \in Rows(df) : df.data["stress_zone"][i] # HighStress

ZeroOverview ==
    [total_wards |-> 0, high_stress_count |-> 0, medium_stress_count |-> 0,
     low_stress_count |-> 0, avg_pm25 |-> Num(0), avg_esi |-> Num(0)]

\* C3: when the load fails at any step the dataset is None, never a partly
\* normalised frame, and each query answers 200 with its degraded form:
\* overview all zero, both charts the empty figure, wards the empty list, the
\* map an error fragment.
C3_FailedLoadDegrades ==
    /\ (pc = "serving" /\ ~csv.readable) => failed
    /\ (pc = "serving" /\ failed) =>
        /\ df = None
        /\ resp.endpoint # "none" => resp.status = 200
        /\ Answered("overview") => resp.error = "" /\ resp.body = ZeroOverview
        /\ Answered("stress") => resp.error = "" /\ resp.body = EmptyFigure
        /\ Answered("pm25_green") => resp.error = "" /\ resp.body = EmptyFigure
        /\ Answered("wards") => Len(resp.body) = 0
        /\ Answered("map") => resp.error # "" /\ Len(resp.body) = 0

C3_Witness ==
    /\ failed
    /\ csv.readable
    /\ csv.n = 2
    /\ Answered("overview")

ZoneSum(b) == b.high_stress_count + b.medium_stress_count + b.low_stress_count

Unzoned(d) == {i \in Rows(d) : d.data["stress_zone"][i] \notin ThreeZones}

\* C4 as stated: the three zone counts of overview add up to total_wards for
\* every loaded dataset, rows with another stress_zone label included.
C4_CountsSumToTotal ==
    (Answered("overview") /\ Loaded /\ resp.status = 200) =>
        ZoneSum(resp.body) = resp.body.total_wards

\* C4 amended: the three zone counts add up to total_wards minus the number
\* of rows whose stress_zone is none of the three labels, so they add up to
\* total_wards exactly when every row carries one of the three labels.
C4_CountsSumToZonedRows ==
    (Answered("overview") /\ Loaded /\ resp.status = 200) =>
        /\ resp.body.total_wards = df.n
        /\ ZoneSum(resp.body) = df.n - Cardinality(Unzoned(df))
        /\ resp.body.high_stress_count =
               Cardinality({i \in Rows(df) : df.data["stress_zone"][i] = HighStress})
        /\ resp.body.medium_stress_count =
               Cardinality({i \in Rows(df) : df.data["stress_zone"][i] = MediumStress})
        /\ resp.body.low_stress_count =
               Cardinality({i \in Rows(df) : df.data["stress_zone"][i] = LowStress})

C4_Witness ==
    /\ Answered("overview") /\ Loaded /\ resp.status = 200
    /\ df.n = 2
    /\ Cardinality(Unzoned(df)) = 1

\* The ward identifiers of the source files are the row positions, so the
\* ward field of a table row names the source row it was taken from.
WardsCase ==
    /\ Answered("wards") /\ Loaded
    /\ df.n >= 2
    /\ Has(df, {WardCols[j] : j \in 1..Len(WardCols)})

EachWardOnce(t, d) ==
    /\ Len(t) = d.n
    /\ \A i \in Rows(d) : Cardinality({k \in 1..Len(t) : t[k].ward = i}) = 1
    /\ \A k \in 1..Len(t) :
          \A j \in 1..Len(WardCols) :
              t[k][WardCols[j]] = d.data[WardCols[j]][t[k].ward]

EsiDescending(t) == \A k \in 1..(Len(t) - 1) : t[k].esi >= t[k + 1].esi

\* C5 as stated: the ward table lists every ward once, by esi descending, and
\* rows of equal esi keep the relative order they have in the source.
C5_DescendingAndStable ==
    WardsCase =>
        /\ EachWardOnce(resp.body, df)
        /\ EsiDescending(resp.body)
        /\ \A k \in 1..(Len(resp.body) - 1) :
              resp.body[k].esi = resp.body[k + 1].esi
                  => resp.body[k].ward < resp.body[k + 1].ward

\* C5 amended: for a loaded dataset of at least 2 rows that has the seven
\* table columns, the ward table lists every ward exactly once, ordered by
\* esi descending; the relative order of rows of equal esi is not fixed.
C5_DescendingPermutation ==
    WardsCase =>
        /\ EachWardOnce(resp.body, df)
        /\ EsiDescending(resp.body)

C5_Witness ==
    /\ WardsCase
    /\ resp.body[1].esi = resp.body[2].esi
    /\ resp.body[1].ward > resp.body[2].ward

Answer(e, d, t) ==
    CASE e = "overview" -> get_overview(d)
      [] e = "stress" -> stress_distribution(d, t)
      [] e = "pm25_green" -> pm25_green(d)
      [] e = "map" -> get_map(d)
      [] e = "wards" -> get_wards(d, t)
      [] e = "insights" -> get_insights(d)
      [] e = "faq" -> get_faq

\* C6: once the load is over no request changes the dataset, which stays the
\* snapshot the load left, and every answer is the one the snapshot
\* determines, whatever requests came before it.
C6_RequestsLeaveDatasetAlone ==
    [][pc = "serving" =>
          /\ df' = df
          /\ df' = snap
          /\ resp' = Answer(resp'.endpoint, snap, tie)]_vars

C6_Witness ==
    /\ Answered("wards") /\ Loaded
    /\ df.n = 2
    /\ Len(resp.body) = 2
    /\ df.data["esi"][1] < df.data["esi"][2]
    /\ resp.body[1].ward = 2
    /\ df = snap

\* C7 as stated: in the pie of stress-distribution every slice labelled with
\* one of the three zones is drawn in that zone's colour.
C7_SliceColourFollowsLabel ==
    (Answered("stress") /\ Loaded /\ resp.status = 200) =>
        LET trace == resp.body.data[1] IN
        \A k \in 1..Len(trace.labels) :
            trace.labels[k] \in ThreeZones =>
                SliceColor(trace, k) = ColorOf(trace.labels[k])

\* C8: defaulting is per column: a population or total_budget column of the
\* source reaches the dataset unchanged, an absent one is filled with 50000
\* (100000000) in every row, and both columns exist after a successful load.
C8_DefaultsPerColumn ==
    Loaded =>
        /\ Has(df, {"population", "total_budget"})
        /\ df.n = csv.n
        /\ IF "population" \in DOMAIN csv.data
           THEN df.data["population"] = csv.data["population"]
           ELSE \A i \in Rows(df) : df.data["population"][i] = 50000
        /\ IF "total_budget" \in DOMAIN csv.data
           THEN df.data["total_budget"] = csv.data["total_budget"]
           ELSE \A i \in Rows(df) : df.data["total_budget"][i] = 100000000

C8_Witness ==
    /\ Loaded
    /\ df.n = 2
    /\ "population" \notin DOMAIN csv.data
    /\ "total_budget" \in DOMAIN csv.data
    /\ df.data["population"] = <<50000, 50000>>

Clamp(x, lo, hi) == IF x < lo THEN lo ELSE IF x > hi THEN hi ELSE x

\* C9: every marker of the map has radius clamp(5 + esi*20, 8, 25), which
\* lies in [8, 25] also for esi below 0 and above 1.
C9_RadiusClamped ==
    (Answered("map") /\ Loaded /\ resp.error = "") =>
        /\ Len(resp.body) = df.n
        /\ \A i \in Rows(df) :
              /\ resp.body[i].radius = Clamp(5 + df.data["esi"][i], 8, 25)
              /\ resp.body[i].radius >= 8
              /\ resp.body[i].radius <= 25

C9_Witness ==
    /\ Answered("map") /\ Loaded /\ resp.error = ""
    /\ df.n = 2
    /\ df.data["esi"][1] < 0
    /\ df.data["esi"][2] > EsiScale
    /\ resp.body[1].radius = 8
    /\ resp.body[2].radius = 25

\* C10 as stated: aliasing never overwrites: lat (lon) takes the values of
\* latitude (longitude) only when the source has no lat (lon) column, and a
\* lat (lon) column of the source reaches the dataset unchanged.
C10_AliasKeepsExistingColumn ==
    Loaded =>
        /\ "lat" \in DOMAIN csv.data => df.data["lat"] = csv.data["lat"]
        /\ "lon" \in DOMAIN csv.data => df.data["lon"] = csv.data["lon"]
        /\ ("lat" \notin DOMAIN csv.data /\ "latitude" \in DOMAIN csv.data)
              => df.data["lat"] = csv.data["latitude"]
        /\ ("lon" \notin DOMAIN csv.data /\ "longitude" \in DOMAIN csv.data)
              => df.data["lon"] = csv.data["longitude"]
====
